---------------------------- MODULE Spec2Model ----------------------------
(***************************************************************************)
(* OutBox email job scheduler: the job store (prisma.emailJob), the        *)
(* BullMQ delay queue (emailQueue), the worker processor                   *)
(* (processEmailJob), the hourly rate limiter (checkRateLimit /            *)
(* incrementRateLimit), the scheduling service (EmailService) and the      *)
(* startup recovery (recoverPendingJobs).                                  *)
(*                                                                         *)
(* Time.  The clock is discrete; one unit is one reading of Date.now().    *)
(* All stored times are kept RELATIVE to the current instant: `now` is the *)
(* offset of Date.now() inside the current hour window, a record's         *)
(* scheduledAt is (scheduledAt - Date.now()), a queue entry's delay is the *)
(* time left until it is ready.  Tick advances the clock by one unit and   *)
(* shifts every stored time by one, which is the same behaviour as an      *)
(* absolute clock seen from a moving origin, and keeps the state space     *)
(* finite while time is unbounded.  The rate counters are the Redis keys   *)
(* of the current hour window; keys of earlier windows are never read      *)
(* again by the code, so they are dropped when the window rolls over.      *)
(***************************************************************************)
EXTENDS Integers, Sequences, FiniteSets, TLC

\* ------------------------------------------------------------------ bounds
MaxJobs == 2          \* records ever created
MaxCrashes == 2       \* process crashes / restarts in one behaviour
MaxRestartJobs == 1   \* records in a behaviour that has a restart
MaxFuture == 1        \* furthest scheduledAt / delay a request asks for
MaxPast == 1          \* how far in the past a relative time is tracked
MaxWorkers == 2       \* config.workerConcurrency ranges over 1..MaxWorkers
MaxSenderCap == 1     \* config.maxEmailsPerHourPerSender, 1..MaxSenderCap
MaxGlobalCap == 2     \* config.globalMaxEmailsPerHour, 1..MaxGlobalCap
NumUsers == 2         \* sender identities
MaxRecipients == 2    \* recipients of one bulk request

\* ------------------------------------------------- program constants (scaled)
HourMs == 2                 \* 3600000 ms, in clock units
BufferMs == 1               \* the 1000 ms buffer of getMsUntilNextHour
attempts == 3               \* defaultJobOptions.attempts
backoffDelay == 1           \* defaultJobOptions.backoff.delay (1000 ms)

Users == 1..NumUsers
JobIds == 1..MaxJobs
Null == "null"
Set == "set"
Statuses == {"SCHEDULED", "PROCESSING", "SENT", "FAILED"}

VARIABLES
    now,          \* Date.now() modulo HourMs: the offset inside the hour window
    config,       \* the configuration the process read from its environment
    emailJob,     \* prisma.emailJob: sequence of records, id = index
    emailQueue,   \* BullMQ queue: jobKey -> entry
    dispatch,     \* running processEmailJob calls: jobKey -> local state
    senderCount,  \* Redis ratelimit:sender:<user>:<current window>
    globalCount,  \* Redis ratelimit:global:<current window>
    recovery,     \* the running recoverPendingJobs call
    api,          \* the running EmailService.schedule* call
    crashes,      \* number of process restarts so far
    sends,        \* log: successful sendEmail calls per job id
    windowSends   \* log: successful sendEmail calls per sender in this window

vars == <<now, config, emailJob, emailQueue, dispatch,
          senderCount, globalCount, recovery, api, crashes, sends, windowSends>>

\* ------------------------------------------------------------- config
\* config/index.ts: the three settings are read from the environment
Configs == [workerConcurrency : 1..MaxWorkers,
            maxEmailsPerHourPerSender : 1..MaxSenderCap,
            globalMaxEmailsPerHour : 1..MaxGlobalCap]

workerConcurrency == config.workerConcurrency
\* rateLimiter.ts: the two caps, read from the same environment variables
MAX_EMAILS_PER_HOUR_PER_SENDER == config.maxEmailsPerHourPerSender
GLOBAL_MAX_EMAILS_PER_HOUR == config.globalMaxEmailsPerHour

\* ------------------------------------------------------------- helpers
Max(a, b) == IF a > b THEN a ELSE b
Min(a, b) == IF a < b THEN a ELSE b

\* a job key: <<emailJobId, 0>> is the key `id`; <<emailJobId, n>>, n >= 1,
\* stands for a key `id-retry-<timestamp>`
OriginalKey(id) == <<id, 0>>
KeyJob(k) == k[1]

Keys == DOMAIN emailQueue
KeysOf(id) == {k \in Keys : KeyJob(k) = id}
\* waiting, delayed or active: everything but a retained failed entry
Live(k) == emailQueue[k].state \in {"delayed", "active"}
LiveKeysOf(id) == {k \in KeysOf(id) : Live(k)}

Ids == 1..Len(emailJob)

ApiIdle == [pc |-> "idle", id |-> 0, userId |-> 0, sendTime |-> 0,
            currentTime |-> 0, delayBetweenEmails |-> 0, i |-> 0, n |-> 0]
RecoveryIdle == [pc |-> "idle", pendingJobs |-> <<>>]

\* the bound on the environment: at most MaxJobs records and MaxCrashes
\* restarts, and a restart only in a behaviour of at most MaxRestartJobs records
Bounded(records, restarts) ==
    /\ records <= MaxJobs
    /\ restarts <= MaxCrashes
    /\ restarts > 0 => records <= MaxRestartJobs

Init ==
    /\ now = 0
    /\ config \in Configs
    /\ emailJob = <<>>
    /\ emailQueue = <<>>
    /\ dispatch = <<>>
    /\ senderCount = [u \in Users |-> 0]
    /\ globalCount = 0
    /\ recovery = RecoveryIdle
    /\ api = ApiIdle
    /\ crashes = 0
    /\ sends = [i \in JobIds |-> 0]
    /\ windowSends = [u \in Users |-> 0]

\* ------------------------------------------------------------- the queue
\* Queue.add(name, data, {delay, jobId}): BullMQ ignores an add whose jobId is
\* the id of an entry the queue still holds (in any state)
QueueAdd(q, k, delayMs) ==
    IF k \in DOMAIN q THEN q
    ELSE [x \in DOMAIN q \cup {k} |->
            IF x = k
            THEN [state |-> "delayed", delay |-> delayMs, attemptsMade |-> 0]
            ELSE q[x]]

\* removeOnComplete: true
QueueRemove(q, k) == [x \in DOMAIN q \ {k} |-> q[x]]

\* an enqueue that ignores the time left until sendTime
NoDelay(delayMs) == 0

\* an enqueue that passes the difference on as it is
RawDelay(delayMs) == delayMs

\* `delay: delayMs > 0 ? delayMs : 0`
ClampDelay(delayMs) == IF delayMs > 0 THEN delayMs ELSE 0


\* relative times: a value <= -MaxPast stands for "MaxPast or more ago"
ShiftTo(floor, t) == IF t <= floor THEN floor ELSE t - 1
Shift(t) == ShiftTo(-MaxPast, t)
AddTime(t, d) == Max(-MaxPast, t + d)

\* the start time of a bulk request is tracked far enough into the past for
\* every send time computed from it to be exact down to -MaxPast
BulkFloor == -(MaxPast + (MaxRecipients - 1) * MaxFuture)

\* ------------------------------------------------------------ rate limiter
\* getMsUntilNextHour(): nextHourMs - now + 1000
getMsUntilNextHour == (HourMs - now) + BufferMs

\* a check that reads the global counter only
checkGlobalOnly(senderId) ==
    IF globalCount >= GLOBAL_MAX_EMAILS_PER_HOUR
    THEN [allowed |-> FALSE, currentCount |-> globalCount,
          limit |-> GLOBAL_MAX_EMAILS_PER_HOUR,
          retryAfterMs |-> getMsUntilNextHour]
    ELSE [allowed |-> TRUE, currentCount |-> senderCount[senderId],
          limit |-> MAX_EMAILS_PER_HOUR_PER_SENDER,
          retryAfterMs |-> 0]

\* a check that reads the sender's counter only
checkSenderOnly(senderId) ==
    IF senderCount[senderId] >= MAX_EMAILS_PER_HOUR_PER_SENDER
    THEN [allowed |-> FALSE, currentCount |-> senderCount[senderId],
          limit |-> MAX_EMAILS_PER_HOUR_PER_SENDER,
          retryAfterMs |-> getMsUntilNextHour]
    ELSE [allowed |-> TRUE, currentCount |-> senderCount[senderId],
          limit |-> MAX_EMAILS_PER_HOUR_PER_SENDER,
          retryAfterMs |-> 0]

\* a check that tests the global cap before the sender's cap
checkGlobalFirst(senderId) ==
    IF globalCount >= GLOBAL_MAX_EMAILS_PER_HOUR
    THEN [allowed |-> FALSE, currentCount |-> globalCount,
          limit |-> GLOBAL_MAX_EMAILS_PER_HOUR,
          retryAfterMs |-> getMsUntilNextHour]
    ELSE IF senderCount[senderId] >= MAX_EMAILS_PER_HOUR_PER_SENDER
    THEN [allowed |-> FALSE, currentCount |-> senderCount[senderId],
          limit |-> MAX_EMAILS_PER_HOUR_PER_SENDER,
          retryAfterMs |-> getMsUntilNextHour]
    ELSE [allowed |-> TRUE, currentCount |-> senderCount[senderId],
          limit |-> MAX_EMAILS_PER_HOUR_PER_SENDER,
          retryAfterMs |-> 0]

\* a check that lets the count go one past the cap before it refuses
checkPastCap(senderId) ==
    IF senderCount[senderId] > MAX_EMAILS_PER_HOUR_PER_SENDER
    THEN [allowed |-> FALSE, currentCount |-> senderCount[senderId],
          limit |-> MAX_EMAILS_PER_HOUR_PER_SENDER,
          retryAfterMs |-> getMsUntilNextHour]
    ELSE IF globalCount > GLOBAL_MAX_EMAILS_PER_HOUR
    THEN [allowed |-> FALSE, currentCount |-> globalCount,
          limit |-> GLOBAL_MAX_EMAILS_PER_HOUR,
          retryAfterMs |-> getMsUntilNextHour]
    ELSE [allowed |-> TRUE, currentCount |-> senderCount[senderId],
          limit |-> MAX_EMAILS_PER_HOUR_PER_SENDER,
          retryAfterMs |-> 0]

\* checkRateLimit(senderId): sender cap first, then the global cap
checkRateLimit(senderId) ==
    IF senderCount[senderId] >= MAX_EMAILS_PER_HOUR_PER_SENDER
    THEN [allowed |-> FALSE, currentCount |-> senderCount[senderId],
          limit |-> MAX_EMAILS_PER_HOUR_PER_SENDER,
          retryAfterMs |-> getMsUntilNextHour]
    ELSE IF globalCount >= GLOBAL_MAX_EMAILS_PER_HOUR
    THEN [allowed |-> FALSE, currentCount |-> globalCount,
          limit |-> GLOBAL_MAX_EMAILS_PER_HOUR,
          retryAfterMs |-> getMsUntilNextHour]
    ELSE [allowed |-> TRUE, currentCount |-> senderCount[senderId],
          limit |-> MAX_EMAILS_PER_HOUR_PER_SENDER,
          retryAfterMs |-> 0]

\* an increment that leaves the global counter out
incrementSenderOnly(senderId) ==
    /\ senderCount' = [senderCount EXCEPT ![senderId] = @ + 1]
    /\ globalCount' = globalCount

\* incrementRateLimit(senderId): INCR of both keys of the current window
incrementRateLimit(senderId) ==
    /\ senderCount' = [senderCount EXCEPT ![senderId] = @ + 1]
    /\ globalCount' = globalCount + 1

\* getRateLimitStatus: two GETs on the keys of the current window
getRateLimitStatus(senderId) ==
    [senderCount |-> senderCount[senderId],
     senderLimit |-> MAX_EMAILS_PER_HOUR_PER_SENDER,
     globalCount |-> globalCount,
     globalLimit |-> GLOBAL_MAX_EMAILS_PER_HOUR]

\* ------------------------------------------------------------ the clock
\* One unit of time passes.  Entering a new hour window makes the code read
\* fresh (absent) counter keys.
Tick ==
    /\ now' = (now + 1) % HourMs
    /\ emailJob' = [i \in Ids |->
                      [emailJob[i] EXCEPT !.scheduledAt = Shift(@)]]
    /\ emailQueue' = [k \in Keys |->
                        [emailQueue[k] EXCEPT !.delay = Max(0, @ - 1)]]
    /\ api' = IF api.pc = "idle" THEN api
              ELSE IF api.pc = "add" THEN [api EXCEPT !.sendTime = Shift(@)]
              ELSE [api EXCEPT !.sendTime = Shift(@),
                               !.currentTime = ShiftTo(BulkFloor, @)]
    /\ IF now' = 0
       THEN /\ senderCount' = [u \in Users |-> 0]
            /\ globalCount' = 0
            /\ windowSends' = [u \in Users |-> 0]
       ELSE UNCHANGED <<senderCount, globalCount, windowSends>>
    /\ UNCHANGED <<config, dispatch, recovery, crashes, sends>>

\* ------------------------------------------------------------ EmailService
\* prisma.emailJob.create({... scheduledAt: sendTime, status: "SCHEDULED"})
NewRecord(userId, recipient, sendTime) ==
    [userId |-> userId, recipient |-> recipient, status |-> "SCHEDULED",
     scheduledAt |-> sendTime, sentAt |-> Null, failedAt |-> Null]

\* scheduleEmail: `let sendTime = new Date(); if (data.scheduledAt) ...;
\* if (data.delay) sendTime = new Date(Date.now() + data.delay)`
\* (a delay of 0 is falsy in JavaScript).  An optional field of the DTO is a
\* set: empty when the field is absent, else holding its value.
Given(field) == CHOOSE v \in field : TRUE
SendTime(scheduledAt, delay) ==
    IF delay # {} /\ delay # {0} THEN Given(delay)
    ELSE IF scheduledAt # {} THEN Given(scheduledAt)
    ELSE 0

TimeInputs == {{}} \cup {{t} : t \in -MaxPast..MaxFuture}

\* bulkScheduleSchema: `delayBetweenEmails: z.number()`, any number
StaggerInputs == -MaxPast..MaxFuture

\* scheduleEmail up to the end of prisma.emailJob.create
ScheduleEmailCreate(userId, scheduledAt, delay) ==
    /\ api.pc = "idle"
    /\ Bounded(Len(emailJob) + 1, crashes)
    /\ LET sendTime == SendTime(scheduledAt, delay) IN
       /\ emailJob' = Append(emailJob, NewRecord(userId, 0, sendTime))
       /\ api' = [ApiIdle EXCEPT !.pc = "add", !.id = Len(emailJob) + 1,
                                 !.userId = userId, !.sendTime = sendTime]
    /\ UNCHANGED <<now, config, emailQueue, dispatch, senderCount,
                   globalCount, recovery, crashes, sends, windowSends>>

\* scheduleEmail: `delayMs = sendTime.getTime() - Date.now()` and emailQueue.add
ScheduleEmailAdd ==
    /\ api.pc = "add"
    /\ emailQueue' = QueueAdd(emailQueue, OriginalKey(api.id),
                              ClampDelay(api.sendTime))
    /\ api' = ApiIdle
    /\ UNCHANGED <<now, config, emailJob, dispatch, senderCount,
                   globalCount, recovery, crashes, sends, windowSends>>

\* a stagger that adds the delay once instead of i times
BulkSendTimeUnscaled(currentTime, i, delayBetweenEmails) ==
    AddTime(currentTime, delayBetweenEmails)

\* scheduleBulkEmails: one turn of the loop up to the end of the create;
\* `sendTime = new Date(currentTime + (i * data.delayBetweenEmails))`
BulkSendTime(currentTime, i, delayBetweenEmails) ==
    AddTime(currentTime, i * delayBetweenEmails)

ScheduleBulkCreate(userId, startTime, delayBetweenEmails, n) ==
    /\ \/ /\ api.pc = "idle"
          /\ Bounded(Len(emailJob) + n, crashes)
          /\ LET sendTime == BulkSendTime(startTime, 0, delayBetweenEmails) IN
             /\ emailJob' = Append(emailJob, NewRecord(userId, 0, sendTime))
             /\ api' = [pc |-> "bulkAdd", id |-> Len(emailJob) + 1,
                        userId |-> userId, sendTime |-> sendTime,
                        currentTime |-> startTime,
                        delayBetweenEmails |-> delayBetweenEmails,
                        i |-> 0, n |-> n]
       \/ /\ api.pc = "bulkCreate"
          /\ userId = api.userId /\ startTime = api.currentTime
          /\ delayBetweenEmails = api.delayBetweenEmails /\ n = api.n
          /\ LET sendTime == BulkSendTime(api.currentTime, api.i,
                                          api.delayBetweenEmails) IN
             /\ emailJob' = Append(emailJob,
                                    NewRecord(userId, api.i, sendTime))
             /\ api' = [api EXCEPT !.pc = "bulkAdd", !.id = Len(emailJob) + 1,
                                   !.sendTime = sendTime]
    /\ UNCHANGED <<now, config, emailQueue, dispatch, senderCount,
                   globalCount, recovery, crashes, sends, windowSends>>

\* scheduleBulkEmails: the emailQueue.add of the turn and the loop increment
ScheduleBulkAdd ==
    /\ api.pc = "bulkAdd"
    /\ emailQueue' = QueueAdd(emailQueue, OriginalKey(api.id),
                              ClampDelay(api.sendTime))
    /\ api' = IF api.i + 1 < api.n
              THEN [api EXCEPT !.pc = "bulkCreate", !.i = @ + 1]
              ELSE ApiIdle
    /\ UNCHANGED <<now, config, emailJob, dispatch, senderCount,
                   globalCount, recovery, crashes, sends, windowSends>>

\* scheduleBulkEmails: the object returned after the loop (jobs left out)
ScheduleBulkResult(jobsLength, currentTime, delayBetweenEmails, n) ==
    [totalScheduled |-> jobsLength,
     firstSendAt |-> currentTime,
     lastSendAt |-> currentTime + ((n - 1) * delayBetweenEmails)]

\* ------------------------------------------------------------ the worker
\* the key of a rate-limit retry, `${emailJobId}-retry-${Date.now()}`: the
\* millisecond stamp makes it a key no entry of the queue has
RetryKey(id) ==
    LET unused == {n \in 1..(Cardinality(Keys) + 1) : <<id, n>> \notin Keys}
    IN <<id, CHOOSE n \in unused : \A m \in unused : n <= m>>

Running == DOMAIN dispatch
NewDispatch == [pc |-> "findUnique", senderId |-> 0, retryAfterMs |-> 0]
DropDispatch(k) == [x \in Running \ {k} |-> dispatch[x]]

\* the processor's return treated as a failed attempt: the entry is kept
Retried(q, k) == [q EXCEPT ![k].attemptsMade = @ + 1]

\* the processor returned: BullMQ completes the entry (removeOnComplete: true)
Completed(q, k) == QueueRemove(q, k)

\* a fixed backoff: every retry waits the base delay
BackoffFixed(attemptsMade) == backoffDelay

\* backoff: {type: "exponential", delay: 1000}: 2^(attemptsMade - 1) * delay
Backoff(attemptsMade) == (2 ^ (attemptsMade - 1)) * backoffDelay

\* a queue that gives up on an entry at its first failure
FailedAtOnce(e) ==
    [e EXCEPT !.state = "failed", !.attemptsMade = @ + 1, !.delay = 0]

\* the processor threw: the entry is retried with backoff while attempts are
\* left, then failed and retained (removeOnFail: false)
Failed(e) ==
    IF e.attemptsMade + 1 < attempts
    THEN [e EXCEPT !.state = "delayed", !.attemptsMade = @ + 1,
                   !.delay = Backoff(e.attemptsMade + 1)]
    ELSE [e EXCEPT !.state = "failed", !.attemptsMade = @ + 1, !.delay = 0]

\* a gate that lets every record through
NeverHandled(status) == FALSE

\* the idempotency check: only SENT is skipped
AlreadyHandled(status) == status = "SENT"

\* a worker that takes every ready entry at once
SlotAlwaysFree == TRUE

\* `concurrency: config.workerConcurrency`: the worker takes an entry only
\* while fewer than that many processEmailJob calls are running
SlotFree == Cardinality(Running) < workerConcurrency

\* Step 1 and 2 of processEmailJob: what prisma.emailJob.findUnique and the
\* idempotency check make of the call: "NOT_FOUND", "ALREADY_SENT" or go on
Loaded(emailJobId) ==
    IF emailJobId \notin Ids THEN "NOT_FOUND"
    ELSE IF AlreadyHandled(emailJob[emailJobId].status) THEN "ALREADY_SENT"
    ELSE "checkRateLimit"

\* BullMQ hands a ready entry to a free slot of the worker
\* (`concurrency: config.workerConcurrency`); processEmailJob runs up to the
\* end of its idempotency check, and when it returns there the entry is
\* completed
FindUnique(k) ==
    /\ k \in Keys
    /\ emailQueue[k].state = "delayed"
    /\ emailQueue[k].delay = 0
    /\ SlotFree
    /\ IF Loaded(KeyJob(k)) = "checkRateLimit"
       THEN /\ emailQueue' = [emailQueue EXCEPT ![k].state = "active"]
            /\ dispatch' = [x \in Running \cup {k} |->
                              IF x = k
                              THEN [NewDispatch EXCEPT
                                      !.pc = "checkRateLimit",
                                      !.senderId = emailJob[KeyJob(k)].userId]
                              ELSE dispatch[x]]
       ELSE /\ emailQueue' = Completed(emailQueue, k)
            /\ UNCHANGED dispatch
    /\ UNCHANGED <<now, config, emailJob, senderCount,
                   globalCount, recovery, api, crashes, sends, windowSends>>

\* a check that counts the message it admits
CheckAndIncrement(k) ==
    /\ k \in Running /\ dispatch[k].pc = "checkRateLimit"
    /\ LET rateLimitResult == checkRateLimit(dispatch[k].senderId) IN
       /\ dispatch' =
            IF ~rateLimitResult.allowed
            THEN [dispatch EXCEPT ![k].pc = "getMsUntilNextHour"]
            ELSE [dispatch EXCEPT ![k].pc = "updateProcessing"]
       /\ IF rateLimitResult.allowed
          THEN incrementRateLimit(dispatch[k].senderId)
          ELSE UNCHANGED <<senderCount, globalCount>>
    /\ UNCHANGED <<now, config, emailJob, emailQueue,
                   recovery, api, crashes, sends, windowSends>>

\* Step 3: `const rateLimitResult = await checkRateLimit(senderId)`: the
\* window key is fixed and the two counters are read; a refusal is decided on
\* the counts read, and its retryAfterMs is computed afterwards, when the
\* reply of the pipeline has arrived
CheckRateLimit(k) ==
    /\ k \in Running /\ dispatch[k].pc = "checkRateLimit"
    /\ LET rateLimitResult == checkRateLimit(dispatch[k].senderId) IN
       dispatch' =
         IF ~rateLimitResult.allowed
         THEN [dispatch EXCEPT ![k].pc = "getMsUntilNextHour"]
         ELSE [dispatch EXCEPT ![k].pc = "updateProcessing"]
    /\ UNCHANGED <<now, config, emailJob, emailQueue,
                   senderCount, globalCount, recovery, api, crashes, sends,
                   windowSends>>

\* checkRateLimit, refused: `retryAfterMs: getMsUntilNextHour()`, a second
\* reading of the clock, made after the counters were read
GetMsUntilNextHour(k) ==
    /\ k \in Running /\ dispatch[k].pc = "getMsUntilNextHour"
    /\ dispatch' = [dispatch EXCEPT ![k].pc = "requeue",
                                    ![k].retryAfterMs = getMsUntilNextHour]
    /\ UNCHANGED <<now, config, emailJob, emailQueue,
                   senderCount, globalCount, recovery, api, crashes, sends,
                   windowSends>>

\* a rate-limited branch that drops the job instead of adding a retry entry
Dropped(k) == emailQueue

\* a refusal whose new entry is ready at once
RequeuedWithoutDelay(k) ==
    QueueAdd(emailQueue, RetryKey(KeyJob(k)), 0)

\* the queue after the rate-limited branch's emailQueue.add
Requeued(k) ==
    QueueAdd(emailQueue, RetryKey(KeyJob(k)), dispatch[k].retryAfterMs)

\* a rate-limited branch that also moves the record's scheduledAt to the time
\* of the retry
RequeueMovingScheduledAt(k) ==
    /\ k \in Running /\ dispatch[k].pc = "requeue"
    /\ emailQueue' = Completed(Requeued(k), k)
    /\ emailJob' = [emailJob EXCEPT
                      ![KeyJob(k)].scheduledAt = dispatch[k].retryAfterMs]
    /\ dispatch' = DropDispatch(k)
    /\ UNCHANGED <<now, config, senderCount,
                   globalCount, recovery, api, crashes, sends, windowSends>>

\* Step 3, not allowed: emailQueue.add of a retry entry, then the return of
\* RATE_LIMITED, which completes the current entry
Requeue(k) ==
    /\ k \in Running /\ dispatch[k].pc = "requeue"
    /\ emailQueue' = Completed(Requeued(k), k)
    /\ dispatch' = DropDispatch(k)
    /\ UNCHANGED <<now, config, emailJob, senderCount,
                   globalCount, recovery, api, crashes, sends, windowSends>>

\* Step 4: prisma.emailJob.update({data: {status: "PROCESSING"}}); what
\* follows is `await delay(config.minDelayBetweenEmails)` and the sendEmail
\* call, during which any amount of time may pass
UpdateProcessing(k) ==
    /\ k \in Running /\ dispatch[k].pc = "updateProcessing"
    /\ emailJob' = [emailJob EXCEPT ![KeyJob(k)].status = "PROCESSING"]
    /\ dispatch' = [dispatch EXCEPT ![k].pc = "sendEmail"]
    /\ UNCHANGED <<now, config, emailQueue, senderCount,
                   globalCount, recovery, api, crashes, sends, windowSends>>

\* Step 6: sendEmail resolves: the transport has delivered the message
SendEmailOk(k) ==
    /\ k \in Running /\ dispatch[k].pc = "sendEmail"
    /\ sends' = [sends EXCEPT ![KeyJob(k)] = @ + 1]
    /\ windowSends' = [windowSends EXCEPT ![dispatch[k].senderId] = @ + 1]
    /\ dispatch' = [dispatch EXCEPT ![k].pc = "updateSent"]
    /\ UNCHANGED <<now, config, emailJob, emailQueue, senderCount,
                   globalCount, recovery, api, crashes>>

\* Step 6: sendEmail rejects (transport failure); control enters the catch
SendEmailFail(k) ==
    /\ k \in Running /\ dispatch[k].pc = "sendEmail"
    /\ dispatch' = [dispatch EXCEPT ![k].pc = "updateFailed"]
    /\ UNCHANGED <<now, config, emailJob, emailQueue, senderCount,
                   globalCount, recovery, api, crashes, sends, windowSends>>

\* Step 7: prisma.emailJob.update({data: {status: "SENT", sentAt: new Date()}})
UpdateSent(k) ==
    /\ k \in Running /\ dispatch[k].pc = "updateSent"
    /\ emailJob' = [emailJob EXCEPT ![KeyJob(k)].status = "SENT",
                                    ![KeyJob(k)].sentAt = Set]
    /\ dispatch' = [dispatch EXCEPT ![k].pc = "incrementRateLimit"]
    /\ UNCHANGED <<now, config, emailQueue, senderCount,
                   globalCount, recovery, api, crashes, sends, windowSends>>

\* Step 8: `await incrementRateLimit(senderId)`, then the return of the
\* result, which completes the entry
IncrementRateLimit(k) ==
    /\ k \in Running /\ dispatch[k].pc = "incrementRateLimit"
    /\ incrementRateLimit(dispatch[k].senderId)
    /\ emailQueue' = Completed(emailQueue, k)
    /\ dispatch' = DropDispatch(k)
    /\ UNCHANGED <<now, config, emailJob, recovery, api,
                   crashes, sends, windowSends>>

\* a catch block that counts the failed attempt against the rate limit
UpdateFailedCounting(k) ==
    /\ k \in Running /\ dispatch[k].pc = "updateFailed"
    /\ emailJob' = [emailJob EXCEPT ![KeyJob(k)].status = "FAILED",
                                    ![KeyJob(k)].failedAt = Set]
    /\ emailQueue' = [emailQueue EXCEPT ![k] = Failed(@)]
    /\ incrementRateLimit(dispatch[k].senderId)
    /\ dispatch' = DropDispatch(k)
    /\ UNCHANGED <<now, config, recovery, api, crashes, sends, windowSends>>

\* catch: prisma.emailJob.update({data: {status: "FAILED", failedAt: new
\* Date()}}), then `throw error`, on which BullMQ applies the retry policy
UpdateFailed(k) ==
    /\ k \in Running /\ dispatch[k].pc = "updateFailed"
    /\ emailJob' = [emailJob EXCEPT ![KeyJob(k)].status = "FAILED",
                                    ![KeyJob(k)].failedAt = Set]
    /\ emailQueue' = [emailQueue EXCEPT ![k] = Failed(@)]
    /\ dispatch' = DropDispatch(k)
    /\ UNCHANGED <<now, config, senderCount, globalCount,
                   recovery, api, crashes, sends, windowSends>>

\* ------------------------------------------------------------ recovery
\* a filter that takes FAILED rows as well
UnsentStatuses == {"SCHEDULED", "PROCESSING", "FAILED"}

\* a pass that looks for interrupted dispatches only
ProcessingOnly == {"PROCESSING"}

\* `where: {status: {in: ["SCHEDULED", "PROCESSING"]}}`
PendingStatuses == {"SCHEDULED", "PROCESSING"}

\* the rows prisma.emailJob.findMany returns from a store (in id order)
FindPendingIn(store) ==
    SelectSeq([i \in 1..Len(store) |-> [id |-> i, status |-> store[i].status]],
              LAMBDA job : job.status \in PendingStatuses)

FindPending == FindPendingIn(emailJob)

\* recoverPendingJobs: `const pendingJobs = await prisma.emailJob.findMany(...)`
RecoveryFind ==
    /\ recovery.pc = "find"
    /\ recovery' = [pc |-> IF FindPending = <<>> THEN "idle" ELSE "loop",
                    pendingJobs |-> FindPending]
    /\ UNCHANGED <<now, config, emailJob, emailQueue, dispatch,
                   senderCount, globalCount, api, crashes, sends, windowSends>>

\* a pass that resets nothing
NoReset(job) == FALSE

\* `if (job.status === "PROCESSING")`, on the row as it was read
NeedsReset(job) == job.status = "PROCESSING"

\* recoverPendingJobs: the update of a row read as PROCESSING back to SCHEDULED
RecoveryUpdate ==
    /\ recovery.pc = "loop"
    /\ NeedsReset(Head(recovery.pendingJobs))
    /\ emailJob' = [emailJob EXCEPT
                      ![Head(recovery.pendingJobs).id].status = "SCHEDULED"]
    /\ recovery' = [recovery EXCEPT !.pc = "getJob"]
    /\ UNCHANGED <<now, config, emailQueue, dispatch, senderCount,
                   globalCount, api, crashes, sends, windowSends>>

\* a re-enqueue under a key of its own instead of the key job.id
RecoveredUnderNewKey(q, store, id) ==
    LET unused == {n \in 1..(Cardinality(DOMAIN q) + 1) : <<id, n>> \notin DOMAIN q}
    IN QueueAdd(q, <<id, CHOOSE n \in unused : \A m \in unused : n <= m>>,
                ClampDelay(store[id].scheduledAt))

\* the queue q after `existingJob = await emailQueue.getJob(job.id);
\* if (!existingJob) await emailQueue.add(..., {delay, jobId: job.id})`
RecoveredIn(q, store, id) ==
    IF OriginalKey(id) \in DOMAIN q THEN q
    ELSE QueueAdd(q, OriginalKey(id), ClampDelay(store[id].scheduledAt))

Recovered(id) == RecoveredIn(emailQueue, emailJob, id)

\* recoverPendingJobs: the rest of one turn of the loop
RecoveryRequeue ==
    /\ \/ recovery.pc = "getJob"
       \/ recovery.pc = "loop" /\ ~NeedsReset(Head(recovery.pendingJobs))
    /\ emailQueue' = Recovered(Head(recovery.pendingJobs).id)
    /\ recovery' = [pc |-> IF Tail(recovery.pendingJobs) = <<>>
                           THEN "idle" ELSE "loop",
                    pendingJobs |-> Tail(recovery.pendingJobs)]
    /\ UNCHANGED <<now, config, emailJob, dispatch, senderCount,
                   globalCount, api, crashes, sends, windowSends>>

\* recoverPendingJobs as a whole, run with nothing else in between on a store
\* and a queue: the loop over the rows read, and what the call leaves and
\* returns
RECURSIVE RecoveryLoop(_, _, _)
RecoveryLoop(pendingJobs, store, q) ==
    IF pendingJobs = <<>> THEN [emailJob |-> store, emailQueue |-> q]
    ELSE LET job == Head(pendingJobs)
             updated == IF NeedsReset(job)
                        THEN [store EXCEPT ![job.id].status = "SCHEDULED"]
                        ELSE store
         IN RecoveryLoop(Tail(pendingJobs), updated,
                         RecoveredIn(q, updated, job.id))

recoverPendingJobs(store, q) ==
    LET pendingJobs == FindPendingIn(store)
        left == RecoveryLoop(pendingJobs, store, q)
    IN [emailJob |-> left.emailJob, emailQueue |-> left.emailQueue,
        count |-> Len(pendingJobs)]

\* ------------------------------------------------------------ the process
\* an entry that was active when the process died is stalled: BullMQ moves it
\* back to the wait list
Stalled(e) == IF e.state = "active" THEN [e EXCEPT !.state = "delayed"] ELSE e

\* The process dies and is started again: every running call is lost, the
\* worker is created on import and app.listen's callback calls
\* recoverPendingJobs.  Redis (queue and rate counters) either survives or
\* comes back empty; the job store survives.
CrashRestart(wiped) ==
    /\ Bounded(Len(emailJob), crashes + 1)
    /\ crashes' = crashes + 1
    /\ dispatch' = <<>>
    /\ api' = ApiIdle
    /\ recovery' = [pc |-> "find", pendingJobs |-> <<>>]
    /\ IF wiped
       THEN /\ emailQueue' = <<>>
            /\ senderCount' = [u \in Users |-> 0]
            /\ globalCount' = 0
       ELSE /\ emailQueue' = [k \in Keys |-> Stalled(emailQueue[k])]
            /\ UNCHANGED <<senderCount, globalCount>>
    /\ UNCHANGED <<now, config, emailJob, sends, windowSends>>

\* `prisma.emailJob.update` to PROCESSING rejects: the call is outside the
\* try block, so the error goes to the queue with nothing written
UpdateProcessingFail(k) ==
    /\ k \in Running /\ dispatch[k].pc = "updateProcessing"
    /\ emailQueue' = [emailQueue EXCEPT ![k] = Failed(@)]
    /\ dispatch' = DropDispatch(k)
    /\ UNCHANGED <<now, config, emailJob, senderCount, globalCount,
                   recovery, api, crashes, sends, windowSends>>

\* `prisma.emailJob.update` to SENT rejects after sendEmail has resolved: the
\* call is inside the try block, so control goes to the catch block
UpdateSentFail(k) ==
    /\ k \in Running /\ dispatch[k].pc = "updateSent"
    /\ dispatch' = [dispatch EXCEPT ![k].pc = "updateFailed"]
    /\ UNCHANGED <<now, config, emailJob, emailQueue, senderCount,
                   globalCount, recovery, api, crashes, sends, windowSends>>

\* `prisma.emailJob.update` to FAILED rejects inside the catch block: its
\* error goes to the queue in place of the one caught, with nothing written
UpdateFailedFail(k) ==
    /\ k \in Running /\ dispatch[k].pc = "updateFailed"
    /\ emailQueue' = [emailQueue EXCEPT ![k] = Failed(@)]
    /\ dispatch' = DropDispatch(k)
    /\ UNCHANGED <<now, config, emailJob, senderCount, globalCount,
                   recovery, api, crashes, sends, windowSends>>

\* scheduleEmail: `await emailQueue.add(...)` rejects; the error leaves
\* scheduleEmail and the controller answers 500, the record stays as created
ScheduleEmailAddFail ==
    /\ api.pc = "add"
    /\ api' = ApiIdle
    /\ UNCHANGED <<now, config, emailJob, emailQueue, dispatch, senderCount,
                   globalCount, recovery, crashes, sends, windowSends>>

\* scheduleBulkEmails: `await emailQueue.add(...)` rejects at index i; the
\* error leaves the loop, the later recipients are not handled and the
\* controller answers 500
ScheduleBulkAddFail ==
    /\ api.pc = "bulkAdd"
    /\ api' = ApiIdle
    /\ UNCHANGED <<now, config, emailJob, emailQueue, dispatch, senderCount,
                   globalCount, recovery, crashes, sends, windowSends>>

\* the getRateLimits handler: it answers with getRateLimitStatus(senderId)
\* and writes nothing
GetRateLimitStatus(senderId) ==
    /\ senderId \in Users
    /\ UNCHANGED vars

\* a rate-limit status request
Status == \E senderId \in Users : GetRateLimitStatus(senderId)

\* ------------------------------------------------------------ specifications
Schedule ==
    \/ \E userId \in Users, scheduledAt \in TimeInputs, delay \in TimeInputs :
          ScheduleEmailCreate(userId, scheduledAt, delay)
    \/ ScheduleEmailAdd
    \/ \E userId \in Users, startTime \in -MaxPast..MaxFuture,
          delayBetweenEmails \in StaggerInputs, n \in 1..MaxRecipients :
          ScheduleBulkCreate(userId, startTime, delayBetweenEmails, n)
    \/ ScheduleBulkAdd

\* the steps of processEmailJob on the paths where sendEmail resolves
WorkerOk ==
    \E k \in Keys :
        \/ FindUnique(k)
        \/ CheckRateLimit(k)
        \/ GetMsUntilNextHour(k)
        \/ Requeue(k)
        \/ UpdateProcessing(k)
        \/ SendEmailOk(k)
        \/ UpdateSent(k)
        \/ IncrementRateLimit(k)

\* the transport rejects a message
TransportFails == \E k \in Keys : SendEmailFail(k)

\* the catch block of processEmailJob
WorkerCatch == \E k \in Keys : UpdateFailed(k)

Worker == WorkerOk \/ TransportFails \/ WorkerCatch

Recovery == RecoveryFind \/ RecoveryUpdate \/ RecoveryRequeue

\* the running process: no crash
NextRun == Tick \/ Schedule \/ Status \/ Worker
SpecRun == Init /\ [][NextRun]_vars

Crash == \E wiped \in BOOLEAN : CrashRestart(wiped)

Next == NextRun \/ Recovery \/ Crash
Spec == Init /\ [][Next]_vars

\* Scheduling of the code: the clock advances, a request that has started
\* runs to its end, the worker and recoverPendingJobs keep taking steps (Node
\* runs every pending continuation).  Requests, restarts and transport
\* failures are up to the environment.
Fairness ==
    /\ WF_vars(Tick)
    /\ WF_vars(api.pc # "idle" /\ Schedule)
    /\ WF_vars(WorkerOk)
    /\ WF_vars(WorkerCatch)
    /\ WF_vars(Recovery)

\* the transport is not down for good: a sendEmail call that keeps being
\* made eventually resolves
TransportRecovers == SF_vars(\E k \in Keys : SendEmailOk(k))

\* the whole system under that scheduling
LiveSpec == Spec /\ Fairness /\ TransportRecovers

\* the system while the transport accepts every message
NextAvailable == Tick \/ Schedule \/ WorkerOk \/ Recovery \/ Crash
AvailableSpec == Init /\ [][NextAvailable]_vars /\ Fairness

\* the job store rejects a status write of a dispatch
StoreFails ==
    \E k \in Keys :
        \/ UpdateProcessingFail(k)
        \/ UpdateSentFail(k)
        \/ UpdateFailedFail(k)

\* the running process with a job store that may reject status writes, while
\* the transport accepts every message
NextStoreFault == Tick \/ Schedule \/ WorkerOk \/ WorkerCatch \/ StoreFails
StoreFaultSpec == Init /\ [][NextStoreFault]_vars

\* Redis rejects an enqueue made by a schedule request
EnqueueFails == ScheduleEmailAddFail \/ ScheduleBulkAddFail

\* the process dies and is started again with Redis intact
Restart == CrashRestart(FALSE)

\* the whole system with enqueues that may fail at schedule time and a Redis
\* that keeps its data over restarts
NextEnqueueFault ==
    Tick \/ Schedule \/ EnqueueFails \/ Worker \/ Recovery \/ Restart
EnqueueFaultSpec == Init /\ [][NextEnqueueFault]_vars

\* the id of a record that is no longer in the job store (no code of the
\* service deletes a record: the row was removed from outside)
LostId == MaxJobs + 1

\* the running process, started with a queue that still holds the entry of a
\* record the job store has lost
InitLost ==
    /\ now = 0
    /\ config \in Configs
    /\ emailJob = <<>>
    /\ \E delayMs \in 0..MaxFuture :
          emailQueue = QueueAdd(<<>>, OriginalKey(LostId), delayMs)
    /\ dispatch = <<>>
    /\ senderCount = [u \in Users |-> 0]
    /\ globalCount = 0
    /\ recovery = RecoveryIdle
    /\ api = ApiIdle
    /\ crashes = 0
    /\ sends = [i \in JobIds |-> 0]
    /\ windowSends = [u \in Users |-> 0]

LostRecordSpec == InitLost /\ [][NextRun]_vars

TypeOK ==
    /\ now \in 0..(HourMs - 1)
    /\ Len(emailJob) <= MaxJobs
    /\ \A i \in Ids : emailJob[i].status \in Statuses
    /\ Running \subseteq Keys
    /\ \A k \in Keys : (emailQueue[k].state = "active") <=> (k \in Running)
    /\ Cardinality(Running) <= workerConcurrency

\* ------------------------------------------------------------ claims
\* the dispatches of one job whose sendEmail call is outstanding
Outstanding(id) ==
    {k \in Running : KeyJob(k) = id /\ dispatch[k].pc = "sendEmail"}

\* C1: no duplicate delivery: at most one successful Send call has been made
\* for every job, and exactly one for a job whose status is SENT
C1_NoDuplicateDelivery ==
    \A id \in Ids :
        /\ sends[id] <= 1
        /\ emailJob[id].status = "SENT" => sends[id] = 1

\* C2: for every job, at every instant at most one Send call is outstanding
C2_OneSendOutstanding ==
    \A id \in Ids : Cardinality(Outstanding(id)) <= 1

RECURSIVE SumOver(_, _)
SumOver(f, S) ==
    IF S = {} THEN 0
    ELSE LET x == CHOOSE y \in S : TRUE IN f[x] + SumOver(f, S \ {x})

\* C4: after a restart, every job whose status was SCHEDULED or PROCESSING
\* when the process died eventually has status SENT or FAILED
C4_RecoveredJobsFinish ==
    \A id \in JobIds :
        (/\ recovery.pc = "find"
         /\ id \in Ids
         /\ emailJob[id].status \in PendingStatuses)
            ~> (id \in Ids /\ emailJob[id].status \in {"SENT", "FAILED"})

Refused(id) ==
    \E k \in Running : KeyJob(k) = id /\ dispatch[k].pc = "requeue"

\* the queue holds a live entry for the job that is not ready yet
Deferred(id) ==
    \E k \in LiveKeysOf(id) :
        emailQueue[k].state = "delayed" /\ emailQueue[k].delay > 0

\* C3: a job is never dropped when a rate cap is hit: the step that ends a
\* refused dispatch leaves a live queue entry for the job with a ready time in
\* the future and leaves the record's status as it is, and, while the
\* transport accepts every message, the job is eventually SENT
C3_NeverDropped ==
    /\ [][\A k \in Running :
            (dispatch[k].pc = "requeue" /\ k \notin DOMAIN dispatch'
                                        /\ crashes' = crashes)
              => /\ Deferred(KeyJob(k))'
                 /\ emailJob'[KeyJob(k)].status = emailJob[KeyJob(k)].status]_vars
    /\ \A id \in JobIds :
          Refused(id) ~> (id \in Ids /\ emailJob[id].status = "SENT")

\* a refused dispatch has ended: its job waits in a retry entry, not ready
C3_Witness ==
    \E id \in Ids :
        /\ emailJob[id].status = "SCHEDULED"
        /\ \E k \in LiveKeysOf(id) : k[2] >= 1 /\ emailQueue[k].delay > 0

\* C7: no Send call for a job occurs before the job's scheduledAt: while a
\* sendEmail call for the job is outstanding or has just resolved, the
\* record's scheduledAt is not in the future
C7_NoSendBeforeScheduledAt ==
    \A k \in Running :
        dispatch[k].pc \in {"sendEmail", "updateSent"}
            => emailJob[KeyJob(k)].scheduledAt <= 0

\* a Send has resolved for a job from an entry made by a rate-limit deferral,
\* and one from an entry made by Recovery or left over from before a restart
C7_Witness ==
    \E k \in Running :
        /\ dispatch[k].pc = "updateSent"
        /\ k[2] >= 1
        /\ crashes > 0

\* C8: status SENT is terminal: no step changes the status of a record whose
\* status is SENT
C8_SentIsTerminal ==
    [][\A id \in Ids : emailJob[id].status = "SENT"
                          => emailJob'[id].status = "SENT"]_vars

\* C9 as stated: status FAILED is terminal: no step changes the status of a
\* record whose status is FAILED
C9_FailedIsTerminal ==
    [][\A id \in Ids : emailJob[id].status = "FAILED"
                          => emailJob'[id].status = "FAILED"]_vars

\* the record is FAILED and nothing is left that would touch it: no live queue
\* entry references the job and no running Recovery pass has it in its list
DeadFailed(id) ==
    /\ emailJob[id].status = "FAILED"
    /\ LiveKeysOf(id) = {}
    /\ \A i \in 1..Len(recovery.pendingJobs) : recovery.pendingJobs[i].id # id

\* C9: status FAILED is terminal once no live queue entry references the job
\* and no running Recovery pass lists it: from then on the record stays FAILED
\* and no entry for the job becomes live again
C9_DeadFailedIsTerminal ==
    [][\A id \in Ids : DeadFailed(id) => DeadFailed(id)']_vars

\* a record is FAILED and its entry has used up its attempts and is retained
C9_Witness ==
    \E id \in Ids :
        /\ DeadFailed(id)
        /\ OriginalKey(id) \in Keys
        /\ emailQueue[OriginalKey(id)].state = "failed"
        /\ emailQueue[OriginalKey(id)].attemptsMade = attempts

\* C10: sentAt is non-null iff status = SENT and failedAt is non-null iff
\* status = FAILED, for every record in every reachable state
C10_TimestampsMatchStatus ==
    \A id \in Ids :
        /\ emailJob[id].sentAt # Null <=> emailJob[id].status = "SENT"
        /\ emailJob[id].failedAt # Null <=> emailJob[id].status = "FAILED"

\* C11: at any moment no two queue entries referencing the same non-terminal
\* job are live (waiting, delayed or active): no sequence of rate-limit
\* deferrals, transport retries and Recovery passes makes two entries for the
\* same job live at once
C11_OneLiveEntry ==
    \A id \in Ids :
        emailJob[id].status \in PendingStatuses
            => Cardinality(LiveKeysOf(id)) <= 1

\* C12: a record's scheduledAt is never changed after creation: no step of
\* the worker (deferral, success, failure) or of Recovery writes it; as a time
\* relative to the clock it moves only with the clock
C12_ScheduledAtNeverChanges ==
    [][\A id \in Ids :
          emailJob'[id].scheduledAt =
              IF now' # now THEN Shift(emailJob[id].scheduledAt)
              ELSE emailJob[id].scheduledAt]_vars

\* a job due in the past waits in a rate-limit retry entry whose ready time is
\* in the future, after a restart and a Recovery pass
C12_Witness ==
    \E id \in Ids :
        /\ emailJob[id].scheduledAt < 0
        /\ crashes > 0 /\ recovery.pc = "idle"
        /\ \E k \in LiveKeysOf(id) : k[2] >= 1 /\ emailQueue[k].delay > 0

\* one Recovery pass, and a second one right after it, on the current store
\* and queue
OncePass == recoverPendingJobs(emailJob, emailQueue)
TwicePass == recoverPendingJobs(OncePass.emailJob, OncePass.emailQueue)

\* C13: Recovery is idempotent: from every store and queue state, with no
\* worker step in between and the same clock reading, running Recovery twice
\* in a row leaves the same records and the same queue entries as running it
\* once
C13_RecoveryIdempotent ==
    /\ TwicePass.emailJob = OncePass.emailJob
    /\ TwicePass.emailQueue = OncePass.emailQueue

\* a state after a restart in which a pass does both of its jobs: a PROCESSING
\* record to reset and a pending record without an entry to enqueue
C13_Witness ==
    /\ crashes > 0
    /\ \E id \in Ids : emailJob[id].status = "PROCESSING"
    /\ OncePass.emailJob # emailJob
    /\ OncePass.emailQueue # emailQueue

\* C14: enqueueing an entry with jobKey = job id twice (at schedule time, by
\* Recovery, or after the first entry completed and was removed) results in
\* at most one transition of the job's status to SENT: a dispatch of the
\* entry with key id takes the status to SENT only on a record that has never
\* been SENT (sentAt, which no write clears, is still null)
C14_OneTransitionToSent ==
    [][\A id \in Ids :
          (/\ emailJob[id].status # "SENT"
           /\ emailJob'[id].status = "SENT"
           /\ OriginalKey(id) \in Running
           /\ OriginalKey(id) \notin DOMAIN dispatch' \/
                 dispatch'[OriginalKey(id)].pc # dispatch[OriginalKey(id)].pc)
             => emailJob[id].sentAt = Null]_vars

\* C15: checkRateLimit agrees with the reference function on all counter
\* values: allowed iff the sender's count is below the sender cap and the
\* global count is below the global cap; when refused, retryAfterMs is the
\* time until the next hour boundary plus the buffer; and when the sender's
\* count is at or above its cap (the global one being so too or not) the
\* reported currentCount and limit are the per-sender ones
C15_CheckMatchesReference ==
    \A u \in Users :
        LET result == checkRateLimit(u) IN
        /\ result.allowed <=>
              (/\ senderCount[u] < config.maxEmailsPerHourPerSender
               /\ globalCount < config.globalMaxEmailsPerHour)
        /\ ~result.allowed => result.retryAfterMs = (HourMs - now) + BufferMs
        /\ senderCount[u] >= config.maxEmailsPerHourPerSender
             => /\ result.currentCount = senderCount[u]
                /\ result.limit = config.maxEmailsPerHourPerSender

\* a dispatch has been refused while its sender's count and the global count
\* are both at their caps, the send that filled them being the cap-th
C15_Witness ==
    \E k \in Running :
        /\ dispatch[k].pc = "requeue"
        /\ senderCount[dispatch[k].senderId] = config.maxEmailsPerHourPerSender
        /\ globalCount >= config.globalMaxEmailsPerHour
        /\ windowSends[dispatch[k].senderId] = config.maxEmailsPerHourPerSender

\* the step starts a new hour window: the counters read are fresh keys
NewWindow ==
    /\ now' = 0 /\ now # 0
    /\ senderCount' = [u \in Users |-> 0]
    /\ globalCount' = 0

\* the step is the increment of dispatch k: both counters go up by one, for
\* k's sender, and the dispatch ends
IncrementedBy(k) ==
    /\ dispatch[k].pc = "incrementRateLimit"
    /\ k \notin DOMAIN dispatch'
    /\ senderCount' = [senderCount EXCEPT ![dispatch[k].senderId] = @ + 1]
    /\ globalCount' = globalCount + 1

\* dispatch k is at pc after the step and was not before it
Enters(k, pc) ==
    /\ k \in DOMAIN dispatch' /\ dispatch'[k].pc = pc
    /\ k \notin Running \/ dispatch[k].pc # pc

C17_RecoveryBeforeWorker ==
    recovery.pc # "idle" => Running = {}

\* the jobs a pass finds pending in the current store
PendingIds == {id \in Ids : emailJob[id].status \in {"SCHEDULED", "PROCESSING"}}

\* C18: the effect of one Recovery pass run alone on the current store and
\* queue: every PROCESSING record is SCHEDULED afterwards and nothing else
\* of any record changes; the queue gains an entry with key job.id, delayed
\* until scheduledAt, for exactly the pending jobs for which getJob(job.id)
\* found nothing, and keeps every entry it had; the count returned is the
\* number of pending jobs found
C18_RecoveryEffect ==
    LET pass == recoverPendingJobs(emailJob, emailQueue)
        added == {OriginalKey(id) : id \in PendingIds} \ Keys
    IN /\ Len(pass.emailJob) = Len(emailJob)
       /\ \A id \in Ids :
            pass.emailJob[id] =
               IF emailJob[id].status = "PROCESSING"
               THEN [emailJob[id] EXCEPT !.status = "SCHEDULED"]
               ELSE emailJob[id]
       /\ DOMAIN pass.emailQueue = Keys \cup added
       /\ \A k \in Keys : pass.emailQueue[k] = emailQueue[k]
       /\ \A k \in added :
            pass.emailQueue[k] =
               [state |-> "delayed", attemptsMade |-> 0,
                delay |-> Max(0, emailJob[KeyJob(k)].scheduledAt)]
       /\ pass.count = Cardinality(PendingIds)

\* the process has restarted with the queue wiped and a record left
\* PROCESSING; no worker is active and the pass is about to start
C18_Witness ==
    /\ crashes > 0 /\ recovery.pc = "find"
    /\ Running = {} /\ emailQueue = <<>>
    /\ \E id \in Ids : emailJob[id].status = "PROCESSING"

\* the send time the claim gives for a request: now + delay whenever a delay
\* is given, otherwise the given scheduledAt, otherwise now (times relative
\* to now)
PlannedSendTime(scheduledAt, delay) ==
    IF delay # {} THEN Given(delay)
    ELSE IF scheduledAt # {} THEN Given(scheduledAt)
    ELSE 0

\* C19: scheduleEmail computes scheduledAt as now + delay whenever a delay is
\* given (for every delay value, 0 included, and overriding a given
\* scheduledAt), otherwise the given scheduledAt, otherwise now; it creates
\* exactly one record, with status SCHEDULED, and exactly one queue entry,
\* with key record.id
C19_ScheduleOne ==
    [][/\ \A userId \in Users, scheduledAt \in TimeInputs, delay \in TimeInputs :
            ScheduleEmailCreate(userId, scheduledAt, delay)
              => /\ Len(emailJob') = Len(emailJob) + 1
                 /\ emailJob'[Len(emailJob')].status = "SCHEDULED"
                 /\ emailJob'[Len(emailJob')].scheduledAt =
                        PlannedSendTime(scheduledAt, delay)
       /\ ScheduleEmailAdd
            => /\ DOMAIN emailQueue' = Keys \cup {OriginalKey(api.id)}
               /\ OriginalKey(api.id) \notin Keys
               /\ Len(emailJob') = Len(emailJob)]_vars

\* C20: scheduleBulkEmails with N >= 1 recipients creates exactly N records
\* in recipient order, record i with scheduledAt = startTime + i *
\* delayBetweenEmails, status SCHEDULED and a queue entry with key record.id,
\* and returns totalScheduled = N, firstSendAt = startTime and lastSendAt =
\* startTime + (N - 1) * delayBetweenEmails; no rate cap or counter enters
\* the plan (times relative to now, exact down to -MaxPast)
C20_ScheduleBulk ==
    [][/\ \A userId \in Users, startTime \in -MaxPast..MaxFuture,
             delayBetweenEmails \in StaggerInputs, n \in 1..MaxRecipients :
            ScheduleBulkCreate(userId, startTime, delayBetweenEmails, n)
              => LET i == IF api.pc = "idle" THEN 0 ELSE api.i
                     start == IF api.pc = "idle" THEN startTime
                              ELSE api.currentTime
                     record == emailJob'[Len(emailJob')]
                 IN /\ Len(emailJob') = Len(emailJob) + 1
                    /\ i < n
                    /\ record.userId = userId
                    /\ record.status = "SCHEDULED"
                    /\ record.scheduledAt =
                          Max(-MaxPast, start + i * delayBetweenEmails)
       /\ ScheduleBulkAdd
            => /\ DOMAIN emailQueue' = Keys \cup {OriginalKey(api.id)}
               /\ OriginalKey(api.id) \notin Keys
               /\ Len(emailJob') = Len(emailJob)
               /\ api'.pc # "idle" => api.i + 1 < api.n
               /\ api'.pc = "idle"
                    => /\ api.i + 1 = api.n
                       /\ \A j \in 0..(api.n - 1) :
                            /\ api.id - j \in Ids
                            /\ emailJob[api.id - j].userId = api.userId
                       /\ ScheduleBulkResult(api.i + 1, api.currentTime,
                                             api.delayBetweenEmails, api.n) =
                            [totalScheduled |-> api.n,
                             firstSendAt |-> api.currentTime,
                             lastSendAt |-> api.currentTime +
                                 (api.n - 1) * api.delayBetweenEmails]]_vars

\* the last turn of a bulk request of two recipients staggered by one unit:
\* the second record is planned one unit after the start although the
\* sender's counter is already at its cap
C20_Witness ==
    /\ api.pc = "bulkAdd" /\ api.i = 1 /\ api.n = 2
    /\ api.delayBetweenEmails = 1
    /\ emailJob[api.id].scheduledAt = api.currentTime + 1
    /\ senderCount[api.userId] = config.maxEmailsPerHourPerSender

\* records id - 1 and id are consecutive recipients of one bulk request
SameBatch(id) == id - 1 \in Ids /\ emailJob[id].recipient >= 1

\* the entry with key id waits, never attempted, for a ready time in the future
NotYetReady(id) ==
    /\ OriginalKey(id) \in Keys
    /\ emailQueue[OriginalKey(id)].state = "delayed"
    /\ emailQueue[OriginalKey(id)].attemptsMade = 0
    /\ emailQueue[OriginalKey(id)].delay > 0

\* C21: within one bulk batch the ready times of the entries are strictly
\* increasing in recipient index, so dispatch attempts begin in recipient
\* order: of two consecutive recipients, while both entries wait the earlier
\* one is ready first, and the later one is not dispatched while the earlier
\* one still waits for its ready time
C21_BatchDispatchOrder ==
    \A id \in Ids :
        SameBatch(id) =>
            /\ (NotYetReady(id - 1) /\ NotYetReady(id))
                 => emailQueue[OriginalKey(id - 1)].delay
                      < emailQueue[OriginalKey(id)].delay
            /\ OriginalKey(id) \in Running => ~NotYetReady(id - 1)

Unattempted(id) == sends[id] = 0 /\ emailJob[id].failedAt = Null

C23_FailThenSucceed ==
    /\ [][\A k \in Running :
            /\ (dispatch[k].pc = "updateFailed" /\ k \notin DOMAIN dispatch')
                 => /\ emailJob'[KeyJob(k)].status = "FAILED"
                    /\ emailJob'[KeyJob(k)].failedAt = Set
                    /\ sends' = sends
                    /\ NewWindow \/ (/\ senderCount' = senderCount
                                     /\ globalCount' = globalCount)
                    /\ emailQueue[k].attemptsMade + 1 < 3
                         => /\ k \in DOMAIN emailQueue'
                            /\ emailQueue'[k].state = "delayed"
                            /\ emailQueue'[k].attemptsMade =
                                  emailQueue[k].attemptsMade + 1
                            /\ emailQueue'[k].delay =
                                  (2 ^ emailQueue[k].attemptsMade) * backoffDelay
            /\ IncrementedBy(k)
                 => /\ sends[KeyJob(k)] = 1
                    /\ emailJob[KeyJob(k)].status = "SENT"]_vars
    /\ [][\A id \in Ids : emailJob[id].status = "SENT"
                             => emailJob'[id].status = "SENT"]_vars
    /\ [](\A id \in Ids : /\ sends[id] <= 1
                          /\ emailJob[id].status = "SENT" => sends[id] = 1)

\* the third attempt of an entry has sent the message after two failures: the
\* record is SENT with failedAt set, one Send, and the increment is next
C23_Witness ==
    \E id \in Ids :
        /\ OriginalKey(id) \in Running
        /\ dispatch[OriginalKey(id)].pc = "incrementRateLimit"
        /\ emailQueue[OriginalKey(id)].attemptsMade = 2
        /\ emailJob[id].status = "SENT" /\ emailJob[id].failedAt = Set
        /\ sends[id] = 1

\* C24: at every instant the number of dispatches in progress (between a
\* worker taking an entry and processEmailJob returning or throwing, the
\* inter-send sleep included) is at most workerConcurrency
C24_BoundedConcurrency ==
    Cardinality(Running) <= workerConcurrency

\* every slot is taken, one of them by a dispatch in its inter-send sleep or
\* Send, and a ready entry is kept waiting
C24_Witness ==
    /\ Cardinality(Running) = workerConcurrency
    /\ \E k \in Running : dispatch[k].pc = "sendEmail"
    /\ \E k \in Keys : emailQueue[k].state = "delayed" /\ emailQueue[k].delay = 0

Dead(k) == k \in Keys /\ emailQueue[k].state = "failed"

\* C26: in a running process, a dispatch whose Send throws goes to the catch
\* block, which writes FAILED and failedAt and hands the error to the queue;
\* the queue keeps the same key, counts the attempt, and delays the entry by
\* backoffDelay * 2^(attempts made before), so the n-th invocation of an entry
\* has n <= 3; after the third failure the entry is dead: it is kept as it
\* is, is never run again, and the record stays FAILED
C26_TransportRetry ==
    /\ [](\A k \in Keys :
            /\ emailQueue[k].attemptsMade <= attempts
            /\ k \in Running => emailQueue[k].attemptsMade < attempts
            /\ Dead(k) <=> emailQueue[k].attemptsMade = attempts
            /\ Dead(k) => emailJob[KeyJob(k)].status = "FAILED")
    /\ [][\A k \in Running :
            /\ Enters(k, "updateFailed") =>
                  /\ dispatch[k].pc = "sendEmail"
                  /\ UNCHANGED <<emailJob, emailQueue, sends>>
            /\ (dispatch[k].pc = "updateFailed" /\ k \notin DOMAIN dispatch') =>
                  /\ emailJob'[KeyJob(k)] =
                        [emailJob[KeyJob(k)] EXCEPT !.status = "FAILED",
                                                    !.failedAt = Set]
                  /\ DOMAIN emailQueue' = Keys
                  /\ emailQueue'[k].attemptsMade = emailQueue[k].attemptsMade + 1
                  /\ emailQueue'[k].state =
                        IF emailQueue[k].attemptsMade + 1 = attempts
                        THEN "failed" ELSE "delayed"
                  /\ emailQueue[k].attemptsMade + 1 < attempts =>
                        emailQueue'[k].delay =
                            backoffDelay * (2 ^ emailQueue[k].attemptsMade)]_vars
    /\ [][\A k \in Keys : Dead(k) =>
            /\ k \in DOMAIN emailQueue' /\ emailQueue'[k] = emailQueue[k]
            /\ k \notin DOMAIN dispatch'
            /\ emailJob'[KeyJob(k)] = emailJob[KeyJob(k)]]_vars

\* three Sends of one entry have thrown, the second retry after twice the
\* delay of the first: the entry is dead and retained, the record is FAILED
\* and nothing was sent
C26_Witness ==
    \E k \in Keys :
        /\ Dead(k) /\ emailQueue[k].attemptsMade = 3
        /\ k \notin Running
        /\ emailJob[KeyJob(k)].status = "FAILED"
        /\ emailJob[KeyJob(k)].failedAt = Set
        /\ emailJob[KeyJob(k)].sentAt = Null
        /\ sends[KeyJob(k)] = 0

\* C27: on a successful Send the SENT write comes before the increment and
\* the increment before the acknowledgement, so that, whatever the point a
\* crash hits, the counters of the current hour window never exceed the
\* number of successful Sends made in that window: a sender's counter is at
\* most that sender's Sends, the global counter at most all Sends
C27_NeverOverCount ==
    /\ \A u \in Users : senderCount[u] <= windowSends[u]
    /\ globalCount <= SumOver(windowSends, Users)

\* the step is a rejected status write of dispatch k
StoreWriteFails(k) ==
    UpdateProcessingFail(k) \/ UpdateSentFail(k) \/ UpdateFailedFail(k)

\* C28: a rejected job-store status write of a dispatch (PROCESSING, SENT
\* after a successful Send, or FAILED) writes nothing, reaches the queue as a
\* failure of the entry (at once or through the catch block, from which the
\* dispatch can only end as a failure), and the replay of the entry is safe:
\* no job is ever sent successfully a second time
C28_StoreFailureReplaySafe ==
    /\ [][\A k \in Running :
            /\ StoreWriteFails(k) =>
                  /\ emailJob' = emailJob
                  /\ \/ Enters(k, "updateFailed")
                     \/ /\ k \notin DOMAIN dispatch'
                        /\ emailQueue'[k].attemptsMade
                             = emailQueue[k].attemptsMade + 1
            /\ (dispatch[k].pc = "updateFailed" /\ k \notin DOMAIN dispatch')
                  => emailQueue'[k].attemptsMade
                       = emailQueue[k].attemptsMade + 1]_vars
    /\ [][\A id \in Ids : sends[id] >= 1 => sends'[id] = sends[id]]_vars

\* the record is SCHEDULED, no queue entry references the job and no request
\* is about to enqueue one
Orphan(id) ==
    /\ emailJob[id].status = "SCHEDULED"
    /\ KeysOf(id) = {}
    /\ ~(api.pc \in {"add", "bulkAdd"} /\ api.id = id)

\* no Recovery pass can have handled the job: the process has never been
\* restarted, and its one pass ran at the first start on an empty store
NoPassSince(id) == crashes = 0

Ready(k) ==
    /\ k \in Keys /\ k \notin Running
    /\ emailQueue[k].state = "delayed" /\ emailQueue[k].delay = 0

\* C30: the idempotency gate: a step of the running process that takes a
\* ready entry whose record is SENT removes that entry from the queue and
\* changes nothing else: no dispatch goes on to the rate check or the Send,
\* no record is written, no Send is counted, no counter moves and no other
\* entry is added or changed
C30_GateChangesNothing ==
    [][\A k \in Keys :
          (/\ Ready(k)
           /\ emailJob[KeyJob(k)].status = "SENT"
           /\ crashes' = crashes
           /\ k \notin DOMAIN emailQueue' \/ emailQueue'[k] # emailQueue[k])
             => /\ DOMAIN emailQueue' = Keys \ {k}
                /\ \A x \in Keys \ {k} : emailQueue'[x] = emailQueue[x]
                /\ UNCHANGED <<dispatch, emailJob, sends, windowSends,
                               senderCount, globalCount, now, api, recovery>>]_vars

\* an entry is ready and a slot is free for it, and its record is already
\* SENT after one Send: the entry outlived the dispatch that sent the message
C30_Witness ==
    \E k \in Keys :
        /\ Ready(k) /\ SlotFree
        /\ emailJob[KeyJob(k)].status = "SENT"
        /\ emailJob[KeyJob(k)].sentAt = Set
        /\ sends[KeyJob(k)] = 1

\* C31: a dispatch whose emailJobId has no record: a step that takes a ready
\* entry whose job id is not in the store completes it (the entry leaves the
\* queue, no attempt is counted and no retry is left) and changes nothing
\* else: no dispatch goes on, no Send is counted, no record is written, no
\* counter moves and no entry is added or changed
C31_NotFoundChangesNothing ==
    [][\A k \in Keys :
          (/\ Ready(k)
           /\ KeyJob(k) \notin Ids
           /\ k \notin DOMAIN emailQueue' \/ emailQueue'[k] # emailQueue[k])
             => /\ DOMAIN emailQueue' = Keys \ {k}
                /\ \A x \in Keys \ {k} : emailQueue'[x] = emailQueue[x]
                /\ UNCHANGED <<dispatch, emailJob, sends, windowSends,
                               senderCount, globalCount, now, api, recovery>>]_vars

\* the entry of a lost record is ready with a slot free for it, next to a
\* record of the store and its entry
C31_Witness ==
    \E k \in Keys :
        /\ Ready(k) /\ SlotFree
        /\ KeyJob(k) \notin Ids
        /\ \E id \in Ids : OriginalKey(id) \in Keys

\* dispatch k makes its rate check in this step
Checks(k) ==
    /\ dispatch[k].pc = "checkRateLimit"
    /\ k \in DOMAIN dispatch' /\ dispatch'[k].pc # "checkRateLimit"

C33_DelayClamped ==
    /\ [](\A k \in Keys : emailQueue[k].delay >= 0)
    /\ [][\A id \in Ids :
            (OriginalKey(id) \notin Keys /\ OriginalKey(id) \in DOMAIN emailQueue')
              => /\ emailQueue'[OriginalKey(id)].delay
                      = Max(0, emailJob[id].scheduledAt)
                 /\ (api.pc \in {"add", "bulkAdd"} /\ api.id = id /\ api' # api)
                      => emailQueue'[OriginalKey(id)].delay = Max(0, api.sendTime)
                 /\ emailJob[id].scheduledAt <= 0
                      => emailQueue'[OriginalKey(id)].delay = 0]_vars

\* a bulk request is about to enqueue its second recipient with a send time
\* in the past, after its first recipient, also due in the past, was
\* enqueued with delay 0
C33_Witness ==
    /\ api.pc = "bulkAdd" /\ api.i = 1
    /\ api.sendTime < 0
    /\ OriginalKey(api.id) \notin Keys
    /\ emailJob[api.id - 1].scheduledAt < 0
    /\ OriginalKey(api.id - 1) \in Keys
    /\ emailQueue[OriginalKey(api.id - 1)].delay = 0

\* C34: windows are fixed hourly slots: a refusal carries a retryAfterMs
\* longer than the buffer and at most an hour plus the buffer, which from the
\* time of the refused check leads to the buffer's length after the start of
\* the next window, and the refusal is made on the counts of the window it is
\* returned in: counts of the window before never refuse a dispatch
C34_FixedWindows ==
    /\ [](\A k \in Running :
            dispatch[k].pc = "requeue" =>
                /\ dispatch[k].retryAfterMs > BufferMs
                /\ dispatch[k].retryAfterMs <= HourMs + BufferMs)
    /\ [][\A k \in Running :
            Enters(k, "requeue") =>
                /\ now + dispatch'[k].retryAfterMs = HourMs + BufferMs
                /\ ~checkRateLimit(dispatch[k].senderId).allowed]_vars

\* C35: the idempotency check covers PROCESSING as well as SENT: a step of the
\* running process that takes a ready entry whose record is PROCESSING ends
\* the dispatch there, so that no rate check, no write and no Send follow from
\* that load
C35_GateCoversProcessing ==
    [][\A k \in Keys :
          (/\ Ready(k)
           /\ emailJob[KeyJob(k)].status = "PROCESSING"
           /\ crashes' = crashes
           /\ k \notin DOMAIN emailQueue' \/ emailQueue'[k] # emailQueue[k])
             => k \notin DOMAIN dispatch']_vars

\* C36: no orphaned jobs: outside the step of a schedule request between the
\* creation of a record and its enqueue, every record with status SCHEDULED
\* is referenced by at least one live (waiting, delayed or active) queue entry
C36_NoOrphanedJobs ==
    \A id \in Ids :
        (/\ emailJob[id].status = "SCHEDULED"
         /\ ~(api.pc \in {"add", "bulkAdd"} /\ api.id = id))
            => LiveKeysOf(id) # {}

\* C37: Recovery interleaved with a running worker never undoes the worker's
\* progress: a step writes SCHEDULED over another status only if that status
\* is PROCESSING at the moment of the write (a record moved to SENT or FAILED
\* since the pass read it is left alone), and a step of the pass never adds
\* an entry under key job.id for a job that a worker is dispatching through a
\* retry entry
C37_RecoveryKeepsProgress ==
    [][\A id \in Ids :
          /\ (emailJob[id].status # "SCHEDULED" /\ emailJob'[id].status = "SCHEDULED")
                => emailJob[id].status = "PROCESSING"
          /\ (/\ recovery.pc \in {"loop", "getJob"}
              /\ recovery' # recovery
              /\ OriginalKey(id) \notin Keys
              /\ OriginalKey(id) \in DOMAIN emailQueue')
                => ~\E k \in Running : KeyJob(k) = id /\ k[2] >= 1]_vars

\* C38: every successful Send is counted in the hour window of its rate
\* check, even when the sleep and the Send span an hour boundary.  A Send lies
\* between the check and the increment of its dispatch, so each increment
\* then counts a Send made in the window it writes to: when a dispatch
\* increments, its sender has made more Sends in the current window than
\* the sender's counter of that window holds
C38_CountedInWindowOfCheck ==
    [][\A k \in Running :
          IncrementedBy(k) =>
              windowSends[dispatch[k].senderId]
                  > senderCount[dispatch[k].senderId]]_vars


\* C39: in every reachable state the global counter of the current hour
\* window equals the sum, over all senders, of the sender counters of that
\* window (both kinds of key are written together and start a window at 0)
C39_GlobalIsSumOfSenders ==
    globalCount = SumOver(senderCount, Users)

\* two senders have each had a Send counted in the current window
C39_Witness ==
    /\ \A u \in Users : senderCount[u] >= 1
    /\ globalCount = NumUsers
    /\ \A u \in Users : windowSends[u] >= 1
====
